---- MODULE Spec2Model ----
(***************************************************************************)
(* Authorization and credential management of gogcli.                      *)
(*                                                                         *)
(* Spec: one process runs one command, `gog auth add` (AuthAddCmd.Run      *)
(* calling googleauth.Authorize), `gog auth add --manual`, or `gog auth    *)
(* manage` (googleauth.StartManageServer) with its OAuth routes.  The      *)
(* variable cmd says which.                                                *)
(* AdminSpec: the manage server while it serves, with its two mutating     *)
(* routes /set-default and /remove-account.                                *)
(* StoreSpec: a session of store calls and `gog auth` token commands run   *)
(* one after another on one store.                                         *)
(*                                                                         *)
(* Go strings that are only compared are TLA+ strings.  E-mail addresses   *)
(* are lower-cased and trimmed by the store, so they are sequences of      *)
(* one-character strings.  A buffered channel is the sequence of the       *)
(* values it holds.  A select statement with several ready cases may take  *)
(* any of them.                                                            *)
(***************************************************************************)
EXTENDS Integers, Sequences, FiniteSets, TLC

VARIABLES
    cmd,           \* "add" | "add-manual" | "manage": the command this process
                   \* runs; "session": a sequence of store calls and commands
    cEmail,        \* AuthAddCmd.Email
    store0,        \* the store when the command started
    pc,            \* position of the command's main goroutine
    store,         \* secrets.Store: normalized e-mail -> Token
    setCalls,      \* number of SetToken calls made by `auth add` or the manage server
    ctxState,      \* ctx: "none" | "live" | "deadline" | "cancelled" by the caller |
                   \* "released" by the deferred cancel()
    listener,      \* ln: "none" | "open" | "closed"
    srvClosed,     \* srv.Close() has been called
    conn,          \* a keep-alive connection accepted earlier is still open
    serveFailed,   \* Serve returned an error other than ErrServerClosed
    state,         \* Authorize: the state issued for this call
    codeCh,        \* Authorize: chan string, buffer 1
    errCh,         \* Authorize: chan error, buffer 1
    tok,           \* Authorize: the code taken from codeCh, then the token got for it
    result,        \* what Authorize / StartManageServer returned
    runErr,        \* what AuthAddCmd.Run returned ("" is nil)
    exchangeCalls, \* number of requests sent to the token endpoint
    last,          \* <<>> or <<r>>, r the callback handled last and its answer
    nHandled,      \* number of callbacks handled
    nSuccess,      \* number of callbacks answered with the success page
    firstAccepted, \* <<>> or <<v>>, v the first value a callback put in codeCh or errCh
    oauthState,    \* ManageServer.oauthState
    issued,        \* the states /auth/start has issued, in order
    resultCh,      \* ManageServer.resultCh: chan error, buffer 1
    passed,        \* ManageServer: the state values of the callbacks that passed validation
    pasted,        \* manual Authorize: <<>> or <<r>>, r what the read of stdin returned
    lastExchange,  \* the provider's answer to the last token exchange ("" before any)
    defaultAccount,\* the e-mail of the last SetDefaultAccount call that succeeded
    lastAdmin,     \* <<r>>, r the last request and its answer, when that request
                   \* was to /set-default or /remove-account; <<>> otherwise
    file,          \* the file of `auth tokens export`: <<>> or <<f>>
    lastOp,        \* <<>> or <<r>>, r the last store call or command of a session
    prevOp,        \* <<>> or <<r>>, r the arguments of the call before the last
                   \* one when that was a SetToken that succeeded
    displayLeft,   \* Authorize: seconds left before time.After of the display
                   \* window fires (0 once it has fired or before it is set)
    authorized,    \* ManageServer: the codes of the callbacks that carried an
                   \* issued state and were answered with the success page
    lastList,      \* <<r>>, r the answer to the last request, when that request
                   \* was to /accounts; <<>> otherwise
    scopeCall,     \* <<>> or <<r>>, r the last call of ScopesForServices
    scopePrev      \* <<>> or <<r>>, r the call of ScopesForServices before it

\* fixed when the command starts
args == <<cmd, cEmail, store0>>

storeVars == <<store, setCalls>>

srvVars == <<listener, srvClosed, conn, serveFailed>>

\* what is recorded about the callbacks handled
hist == <<last, nHandled, nSuccess, firstAccepted>>

\* the variables of Authorize and AuthAddCmd.Run alone
addVars == <<state, codeCh, errCh, tok, runErr>>

\* the variables of ManageServer alone
msVars == <<oauthState, issued, resultCh, passed>>

\* the variables of the manual variant of Authorize, and the last exchange
manualVars == <<pasted, lastExchange>>

\* the default account and the record of the mutating endpoints
adminVars == <<defaultAccount, lastAdmin>>

\* the variables of a session of store calls and token commands
cliVars == <<file, lastOp, prevOp>>

\* the calls of ScopesForServices
scopeVars == <<scopeCall, scopePrev>>

vars == <<args, pc, storeVars, ctxState, srvVars, addVars, result, exchangeCalls,
          hist, msVars, manualVars, adminVars, cliVars, displayLeft, authorized,
          lastList, scopeVars>>

---------------------------------------------------------------------------
(* Bounds *)

\* callbacks delivered to /oauth2/callback in one run
MaxCallbacks == 2

\* /auth/start requests in one run of the manage server
MaxStarts == 2

\* services in one call of ScopesForServices
MaxServices == 3

---------------------------------------------------------------------------
(* Strings *)

Chars == {"a", "A", "b", " "}

\* strings.ToLower, one character
LowerChar(c) == IF c = "A" THEN "a" ELSE c

\* strings.ToLower
ToLower(s) == [i \in 1..Len(s) |-> LowerChar(s[i])]

RECURSIVE TrimLeft(_)
TrimLeft(s) == IF s # <<>> /\ Head(s) = " " THEN TrimLeft(Tail(s)) ELSE s

RECURSIVE TrimRight(_)
TrimRight(s) ==
    IF s # <<>> /\ s[Len(s)] = " " THEN TrimRight(SubSeq(s, 1, Len(s) - 1)) ELSE s

\* strings.TrimSpace
TrimSpace(s) == TrimRight(TrimLeft(s))

\* normalizeEmail without the lower-casing
normalizeEmailNoLower(s) == TrimSpace(s)

normalizeEmail(s) == ToLower(TrimSpace(s))

\* the e-mail the manage server stores a token under when the callback
\* carries no email parameter ("user@gmail.com")
PlaceholderEmail == <<"b">>

---------------------------------------------------------------------------
(* secrets.Store *)

\* SetToken that keeps the scopes of a record it replaces
SetTokenMerge(st, email, t) ==
    LET e == normalizeEmail(email) IN
    IF e = <<>> THEN [store |-> st, err |-> "missing email"]
    ELSE IF t.RefreshToken = "" THEN [store |-> st, err |-> "missing refresh token"]
    ELSE [store |-> [k \in DOMAIN st \cup {e} |->
                        IF k # e THEN st[k]
                        ELSE IF e \in DOMAIN st
                             THEN [t EXCEPT !.Email = e, !.Scopes = st[e].Scopes]
                             ELSE [t EXCEPT !.Email = e]],
          err |-> ""]

\* SetToken that stores the record with the e-mail the caller put in it
SetTokenKeepEmail(st, email, t) ==
    LET e == normalizeEmail(email) IN
    IF e = <<>> THEN [store |-> st, err |-> "missing email"]
    ELSE IF t.RefreshToken = "" THEN [store |-> st, err |-> "missing refresh token"]
    ELSE [store |-> [k \in DOMAIN st \cup {e} |-> IF k = e THEN t ELSE st[k]],
          err |-> ""]

\* SetToken: the store after the call and the error returned ("" is nil)
SetToken(st, email, t) ==
    LET e == normalizeEmail(email) IN
    IF e = <<>> THEN [store |-> st, err |-> "missing email"]
    ELSE IF t.RefreshToken = "" THEN [store |-> st, err |-> "missing refresh token"]
    ELSE [store |-> [k \in DOMAIN st \cup {e} |->
                        IF k = e THEN [t EXCEPT !.Email = e] ELSE st[k]],
          err |-> ""]

\* DeleteToken that succeeds on an absent key
DeleteTokenSilent(st, email) ==
    LET e == normalizeEmail(email) IN
    IF e = <<>> THEN [store |-> st, err |-> "missing email"]
    ELSE [store |-> [k \in DOMAIN st \ {e} |-> st[k]], err |-> ""]

\* DeleteToken: the store after the call and the error returned
DeleteToken(st, email) ==
    LET e == normalizeEmail(email) IN
    IF e = <<>> THEN [store |-> st, err |-> "missing email"]
    ELSE IF e \notin DOMAIN st THEN [store |-> st, err |-> "key not found"]
    ELSE [store |-> [k \in DOMAIN st \ {e} |-> st[k]], err |-> ""]

EmptyStore == [k \in {} |-> 0]

\* secrets.Token{}
NoToken ==
    [Email |-> <<>>, Services |-> <<>>, Scopes |-> <<>>,
     CreatedAt |-> [sec |-> 0, nsec |-> 0], RefreshToken |-> ""]

\* GetToken: the record returned and the error
GetToken(st, email) ==
    LET e == normalizeEmail(email) IN
    IF e = <<>> THEN [tok |-> NoToken, err |-> "missing email"]
    ELSE IF e \in DOMAIN st THEN [tok |-> st[e], err |-> ""]
    ELSE [tok |-> NoToken, err |-> "key not found"]

\* time.Time{}: the zero time
ZeroTime == [sec |-> 0, nsec |-> 0]

\* secrets.Token{Email, Services, Scopes, RefreshToken}: CreatedAt is left zero
Token(email, services, scopes, refresh) ==
    [Email |-> email, Services |-> services, Scopes |-> scopes,
     CreatedAt |-> ZeroTime, RefreshToken |-> refresh]

\* the service names and the scopes of the default --services=user, shortened
UserServices == <<"calendar", "gmail">>

UserScopes == <<"s1", "s2">>

---------------------------------------------------------------------------
(* Values *)

\* the n-th value randomState returns; <<>> is the empty string
StateTok(n) == <<n>>

\* a state value that was never issued
Forged == <<0>>

Codes == {"c1", "c2"}

\* the refresh token the provider hands out for a code
RefreshFor(code) == IF code = "c1" THEN "rt1" ELSE "rt2"

\* the e-mail of the Google account that granted a code
AccountEmail(code) == IF code = "c1" THEN <<"a">> ELSE <<"a", "b">>

\* the provider's answers to a token exchange
ExchangeOutcomes == {"error", "norefresh", "ok"}

\* the commands that call Authorize: `auth add` and `auth add --manual`
AddCmds == {"add", "add-manual"}

\* query parameters of a request to /oauth2/callback (url.Values.Get gives ""
\* for an absent parameter)
AddCallbacks ==
    [error : {"", "access_denied"},
     state : {<<>>, StateTok(1), Forged},
     code  : {""} \cup Codes]

ManageCallbacks ==
    [error : {"", "access_denied"},
     state : {<<>>, Forged} \cup {StateTok(n) : n \in 1..MaxStarts},
     code  : {""} \cup Codes]

\* capacity of codeCh, errCh and resultCh
ChanCap == 1

\* select { case ch <- v: default: }
TrySend(ch, v) == IF Len(ch) < ChanCap THEN Append(ch, v) ELSE ch

NoResult == [token |-> "", err |-> ""]

\* ctx.Err()
CtxErr(c) == IF c = "deadline" THEN "context deadline exceeded" ELSE "context canceled"

CtxDone(c) == c \in {"deadline", "cancelled", "released"}

\* the outcomes of cfg.Exchange(ctx, code): with ctx done the request is not
\* sent and the call fails with an error that wraps ctx.Err()
ExchangeAnswers(c) == IF CtxDone(c) THEN {"ctx"} ELSE ExchangeOutcomes

NoRefreshErr == "no refresh token received; try again with --force-consent"

\* ExchangeReturn without the test of tok.RefreshToken
ExchangeReturnUnchecked(out, code, c) ==
    CASE out = "ctx" -> [token |-> "", err |-> CtxErr(c)]
      [] out = "error" -> [token |-> "", err |-> "exchange failed"]
      [] out = "norefresh" -> [token |-> "", err |-> ""]
      [] out = "ok" -> [token |-> RefreshFor(code), err |-> ""]

\* cfg.Exchange(ctx, code) and the two checks of its result: the refresh
\* token and the error Authorize goes on with (the error that wraps ctx.Err()
\* is written as ctx.Err())
ExchangeReturn(out, code, c) ==
    CASE out = "ctx" -> [token |-> "", err |-> CtxErr(c)]
      [] out = "error" -> [token |-> "", err |-> "exchange failed"]
      [] out = "norefresh" -> [token |-> "", err |-> NoRefreshErr]
      [] out = "ok" -> [token |-> RefreshFor(code), err |-> ""]

\* the server still answers requests: not closed, and either accepting or
\* holding a connection accepted earlier
CanServe == ~srvClosed /\ (listener = "open" \/ conn)

---------------------------------------------------------------------------
(* googleauth.Authorize, interactive variant *)

\* HandlerResp with the state compared only when the request carries one
HandlerRespLax(cb, st) ==
    IF cb.error # "" THEN "cancelled"
    ELSE IF cb.state # <<>> /\ cb.state # st THEN "state mismatch"
    ELSE IF cb.code = "" THEN "missing code"
    ELSE "success"

\* the answer of the callback handler to a request
HandlerResp(cb, st) ==
    IF cb.error # "" THEN "cancelled"
    ELSE IF cb.state # st THEN "state mismatch"
    ELSE IF cb.code = "" THEN "missing code"
    ELSE "success"

\* the error the handler offers to errCh
HandlerErr(cb, resp) ==
    IF resp = "cancelled" THEN "authorization error: " \o cb.error ELSE resp

\* srv.Close(): the listener and every connection are closed
srvClose ==
    /\ srvClosed' = TRUE
    /\ listener' = "closed"
    /\ conn' = FALSE
    /\ UNCHANGED serveFailed

\* AuthorizeReturn without srv.Close() and the deferred ln.Close()
AuthorizeReturnLeak(token, err) ==
    /\ result' = [token |-> token, err |-> err]
    /\ ctxState' = IF ctxState = "live" THEN "released" ELSE ctxState
    /\ pc' = "returned"
    /\ UNCHANGED srvVars

\* return after the server was started: srv.Close() of the branch, then the
\* deferred ln.Close() and cancel()
AuthorizeReturn(token, err) ==
    /\ srvClose
    /\ result' = [token |-> token, err |-> err]
    /\ ctxState' = IF ctxState = "live" THEN "released" ELSE ctxState
    /\ pc' = "returned"

\* AuthAddCmd.Run up to the call of Authorize
RunStart ==
    /\ cmd \in AddCmds /\ pc = "run"
    /\ \E pre \in {"ok", "keychain"} :
         IF pre = "ok"
         THEN pc' = "authorize" /\ UNCHANGED addVars
         ELSE pc' = "exit" /\ runErr' = "keychain access"
                /\ UNCHANGED <<state, codeCh, errCh, tok>>
    /\ UNCHANGED <<args, scopeVars, lastList, authorized, displayLeft, manualVars, adminVars, cliVars, storeVars, ctxState, srvVars, result, exchangeCalls, hist,
                   msVars>>

\* Authorize from its entry to the select: credentials, state, context,
\* listener, channels, the two goroutines, the URL
AuthorizeStart ==
    /\ cmd = "add" /\ pc = "authorize"
    /\ \E env \in {"credsErr", "stateErr", "listenErr", "ok"} :
         CASE env \in {"credsErr", "stateErr"} ->
                /\ result' = [token |-> "", err |-> env]
                /\ pc' = "returned"
                /\ UNCHANGED <<ctxState, listener, state>>
           [] env = "listenErr" ->
                /\ result' = [token |-> "", err |-> env]
                /\ pc' = "returned"
                /\ state' = StateTok(1)
                /\ ctxState' = "released"
                /\ UNCHANGED listener
           [] env = "ok" ->
                /\ state' = StateTok(1)
                /\ ctxState' = "live"
                /\ listener' = "open"
                /\ pc' = "select"
                /\ UNCHANGED result
    /\ UNCHANGED <<args, scopeVars, lastList, authorized, displayLeft, manualVars, adminVars, cliVars, storeVars, srvClosed, conn, serveFailed, codeCh, errCh, tok, runErr,
                   exchangeCalls, hist, msVars>>

\* the handler of srv on one request to /oauth2/callback
Callback(cb) ==
    /\ cmd = "add" /\ pc \in {"select", "exchange", "display"}
    /\ CanServe
    /\ nHandled < MaxCallbacks
    /\ LET resp   == HandlerResp(cb, state)
           v      == IF resp = "success" THEN cb.code ELSE HandlerErr(cb, resp)
           toCode == resp = "success" /\ Len(codeCh) < ChanCap
           toErr  == resp # "success" /\ Len(errCh) < ChanCap
       IN
         /\ codeCh' = IF resp = "success" THEN TrySend(codeCh, v) ELSE codeCh
         /\ errCh' = IF resp # "success" THEN TrySend(errCh, v) ELSE errCh
         /\ last' = <<[cb |-> cb, resp |-> resp, toCode |-> toCode, toErr |-> toErr]>>
         /\ nHandled' = nHandled + 1
         /\ nSuccess' = IF resp = "success" THEN nSuccess + 1 ELSE nSuccess
         /\ firstAccepted' = IF firstAccepted = <<>> /\ (toCode \/ toErr)
                             THEN <<v>> ELSE firstAccepted
    /\ conn' = TRUE
    /\ UNCHANGED <<args, scopeVars, lastList, authorized, displayLeft, manualVars, adminVars, cliVars, pc, storeVars, ctxState, listener, srvClosed, serveFailed, state, tok,
                   runErr, result, exchangeCalls, msVars>>

\* srv.Serve(ln) returns an error other than ErrServerClosed; Serve closes ln
ServeFail ==
    /\ cmd = "add" /\ pc \in {"select", "exchange", "display"}
    /\ listener = "open" /\ ~srvClosed
    /\ listener' = "closed"
    /\ serveFailed' = TRUE
    /\ errCh' = TrySend(errCh, "serve error")
    /\ UNCHANGED <<args, scopeVars, lastList, authorized, displayLeft, manualVars, adminVars, cliVars, pc, storeVars, ctxState, srvClosed, conn, state, codeCh, tok,
                   runErr, result, exchangeCalls, hist, msVars>>

\* the deadline of context.WithTimeout passes
Deadline ==
    /\ cmd \in AddCmds /\ ctxState = "live"
    /\ ctxState' = "deadline"
    /\ UNCHANGED <<args, scopeVars, lastList, authorized, displayLeft, manualVars, adminVars, cliVars, pc, storeVars, srvVars, addVars, result, exchangeCalls, hist,
                   msVars>>

\* the caller's context is cancelled
Cancel ==
    /\ cmd \in AddCmds /\ ctxState = "live"
    /\ ctxState' = "cancelled"
    /\ UNCHANGED <<args, scopeVars, lastList, authorized, displayLeft, manualVars, adminVars, cliVars, pc, storeVars, srvVars, addVars, result, exchangeCalls, hist,
                   msVars>>

\* go func() { <-ctx.Done(); _ = srv.Close() }()
Closer ==
    /\ cmd = "add" /\ listener # "none"
    /\ CtxDone(ctxState)
    /\ ~srvClosed
    /\ srvClose
    /\ UNCHANGED <<args, scopeVars, lastList, authorized, displayLeft, manualVars, adminVars, cliVars, pc, storeVars, ctxState, addVars, result, exchangeCalls,
                   hist, msVars>>

\* select, case code := <-codeCh
SelectCode ==
    /\ cmd = "add" /\ pc = "select"
    /\ codeCh # <<>>
    /\ tok' = Head(codeCh)
    /\ codeCh' = Tail(codeCh)
    /\ pc' = "exchange"
    /\ UNCHANGED <<args, scopeVars, lastList, authorized, displayLeft, manualVars, adminVars, cliVars, storeVars, ctxState, srvVars, state, errCh, runErr, result,
                   exchangeCalls, hist, msVars>>

\* select, case err := <-errCh
SelectErr ==
    /\ cmd = "add" /\ pc = "select"
    /\ errCh # <<>>
    /\ errCh' = Tail(errCh)
    /\ AuthorizeReturn("", Head(errCh))
    /\ UNCHANGED <<args, scopeVars, lastList, authorized, displayLeft, manualVars, adminVars, cliVars, storeVars, state, codeCh, tok, runErr, exchangeCalls, hist,
                   msVars>>

\* select, case <-ctx.Done()
SelectDone ==
    /\ cmd = "add" /\ pc = "select"
    /\ CtxDone(ctxState)
    /\ AuthorizeReturn("", CtxErr(ctxState))
    /\ UNCHANGED <<args, scopeVars, lastList, authorized, displayLeft, manualVars, adminVars, cliVars, storeVars, addVars, exchangeCalls, hist, msVars>>

\* AfterExchange of a coordinator that waits for a further result
AfterExchangeLoop == "select"

\* where the coordinator goes after an exchange that gave a refresh token
AfterExchange == "display"

\* postSuccessDisplaySeconds: how long the success page stays reachable
postSuccessDisplaySeconds == 30

\* ExchangeFail of a coordinator that waits for another callback
ExchangeFailRetry(err) ==
    /\ pc' = "select"
    /\ UNCHANGED <<ctxState, srvVars, result>>

\* the exchange failed or gave no refresh token: srv.Close() and return
ExchangeFail(err) == AuthorizeReturn("", err)

\* cfg.Exchange(ctx, code) and the two checks of its result; after a refresh
\* token time.After(postSuccessDisplaySeconds) starts to run
Exchange ==
    /\ cmd = "add" /\ pc = "exchange"
    /\ \E out \in ExchangeAnswers(ctxState) :
         LET r == ExchangeReturn(out, tok, ctxState) IN
           /\ lastExchange' = out
           /\ exchangeCalls' = IF out = "ctx" THEN exchangeCalls ELSE exchangeCalls + 1
           /\ IF r.err # ""
              THEN ExchangeFail(r.err) /\ UNCHANGED <<tok, displayLeft>>
              ELSE /\ tok' = r.token
                   /\ displayLeft' = postSuccessDisplaySeconds
                   /\ pc' = AfterExchange
                   /\ UNCHANGED <<ctxState, srvVars, result>>
    /\ UNCHANGED <<args, scopeVars, lastList, authorized, cliVars, adminVars, pasted, storeVars, state, codeCh, errCh, runErr, hist, msVars>>

\* the postSuccessDisplaySeconds pass: time.After fires
DisplayElapse ==
    /\ cmd = "add" /\ pc = "display"
    /\ displayLeft > 0
    /\ displayLeft' = 0
    /\ UNCHANGED <<args, scopeVars, lastList, authorized, manualVars, adminVars, cliVars, pc,
                   storeVars, ctxState, srvVars, addVars, result, exchangeCalls, hist,
                   msVars>>

\* displayOver of a coordinator that does not wait
displayOverAtOnce(left, c) == TRUE

\* select { case <-time.After(...): case <-ctx.Done(): } can proceed
displayOver(left, c) == left = 0 \/ CtxDone(c)

\* the display window ends (time.After fired or ctx is done); srv.Close()
Display ==
    /\ cmd = "add" /\ pc = "display"
    /\ displayOver(displayLeft, ctxState)
    /\ AuthorizeReturn(tok, "")
    /\ UNCHANGED <<args, scopeVars, lastList, authorized, displayLeft, manualVars, adminVars, cliVars, storeVars, addVars, exchangeCalls, hist, msVars>>

\* runStoresToken of a Run that ignores the error of Authorize
runStoresTokenAlways(res) == TRUE

\* Run goes on to store a token after Authorize returned res
runStoresToken(res) == res.err = ""

\* AuthAddCmd.Run after Authorize returned
RunFinish ==
    /\ cmd \in AddCmds /\ pc = "returned"
    /\ IF ~runStoresToken(result)
       THEN /\ runErr' = result.err
            /\ UNCHANGED storeVars
       ELSE \E open \in {"ok", "openErr"} :
              IF open = "openErr"
              THEN runErr' = open /\ UNCHANGED storeVars
              ELSE LET r == SetToken(store, cEmail,
                                     Token(cEmail, UserServices, UserScopes, result.token)) IN
                     /\ store' = r.store
                     /\ setCalls' = setCalls + 1
                     /\ runErr' = r.err
    /\ pc' = "exit"
    /\ UNCHANGED <<args, scopeVars, lastList, authorized, displayLeft, manualVars, adminVars, cliVars, ctxState, srvVars, state, codeCh, errCh, tok, result,
                   exchangeCalls, hist, msVars>>

---------------------------------------------------------------------------
(* googleauth.Authorize, manual variant *)

\* what url.Parse and Query().Get make of a pasted line: whether it parses,
\* and its state and code parameters ("" and <<>> when absent)
PastedURLs ==
    [wellFormed : BOOLEAN,
     state : {<<>>, StateTok(1), Forged},
     code  : {"", "c1"}]

\* the empty line
NoInput == [wellFormed |-> TRUE, state |-> <<>>, code |-> ""]

\* what ReadString('\n') returns: the text read and the error ("" is nil).
\* A line that ends with a newline comes with nil, text that ends with the
\* input comes with io.EOF, a closed or failing stdin gives no text.
StdinReads ==
    {[line |-> u, readErr |-> e] : u \in PastedURLs, e \in {"", "EOF"}}
      \cup {[line |-> NoInput, readErr |-> e] :
              e \in {"file already closed", "input/output error"}}

\* readErr == nil || errors.Is(readErr, os.ErrClosed)
readTolerated(readErr) == readErr \in {"", "file already closed"}

\* extractCodeAndState without the test of the code
extractCodeAndStateAnyCode(u) ==
    IF ~u.wellFormed THEN [code |-> "", state |-> <<>>, err |-> "parse error"]
    ELSE [code |-> u.code, state |-> u.state, err |-> ""]

extractCodeAndState(u) ==
    IF ~u.wellFormed THEN [code |-> "", state |-> <<>>, err |-> "parse error"]
    ELSE IF u.code = ""
         THEN [code |-> "", state |-> <<>>, err |-> "no code found in URL"]
         ELSE [code |-> u.code, state |-> u.state, err |-> ""]

\* manualStateMismatch that requires the state
manualStateMismatchStrict(gotState, st) == gotState # st

\* the manual branch's test of the state: gotState != "" && gotState != state
manualStateMismatch(gotState, st) == gotState # <<>> /\ gotState # st

\* return from the manual branch: the deferred cancel()
ManualReturn(token, err) ==
    /\ result' = [token |-> token, err |-> err]
    /\ ctxState' = IF ctxState = "live" THEN "released" ELSE ctxState
    /\ pc' = "returned"

\* Authorize with opts.Manual from its entry to the read of stdin: credentials,
\* state, context, the URL and the prompt
AuthorizeManualStart ==
    /\ cmd = "add-manual" /\ pc = "authorize"
    /\ \E env \in {"credsErr", "stateErr", "ok"} :
         IF env = "ok"
         THEN /\ state' = StateTok(1)
              /\ ctxState' = "live"
              /\ pc' = "paste"
              /\ UNCHANGED result
         ELSE /\ result' = [token |-> "", err |-> env]
              /\ pc' = "returned"
              /\ UNCHANGED <<ctxState, state>>
    /\ UNCHANGED <<args, scopeVars, lastList, authorized, displayLeft, manualVars, adminVars, cliVars, storeVars, srvVars, codeCh, errCh, tok, runErr,
                   exchangeCalls, hist, msVars>>

\* ReadString returns rd; the line is parsed and its state tested.  The read
\* does not watch ctx: pasted keeps the state of ctx when the read returned.
ManualRead(rd) ==
    /\ cmd = "add-manual" /\ pc = "paste"
    /\ pasted' = <<[line |-> rd.line, readErr |-> rd.readErr, ctx |-> ctxState]>>
    /\ IF ~readTolerated(rd.readErr)
       THEN ManualReturn("", rd.readErr) /\ UNCHANGED tok
       ELSE LET x == extractCodeAndState(rd.line) IN
              IF x.err # ""
              THEN ManualReturn("", x.err) /\ UNCHANGED tok
              ELSE IF manualStateMismatch(x.state, state)
                   THEN ManualReturn("", "state mismatch") /\ UNCHANGED tok
                   ELSE /\ tok' = x.code
                        /\ pc' = "mexchange"
                        /\ UNCHANGED <<result, ctxState>>
    /\ UNCHANGED <<args, scopeVars, lastList, authorized, displayLeft, cliVars, adminVars, lastExchange, storeVars, srvVars, state, codeCh, errCh, runErr,
                   exchangeCalls, hist, msVars>>

\* the manual branch's cfg.Exchange(ctx, code) and the two checks of its result
ManualExchange ==
    /\ cmd = "add-manual" /\ pc = "mexchange"
    /\ \E out \in ExchangeAnswers(ctxState) :
         LET r == ExchangeReturn(out, tok, ctxState) IN
           /\ lastExchange' = out
           /\ exchangeCalls' = IF out = "ctx" THEN exchangeCalls ELSE exchangeCalls + 1
           /\ ManualReturn(r.token, r.err)
    /\ UNCHANGED <<args, scopeVars, lastList, authorized, displayLeft, cliVars, adminVars, pasted, storeVars, srvVars, addVars, hist, msVars>>

---------------------------------------------------------------------------
(* googleauth.StartManageServer and the handlers of ManageServer *)

\* StartManageServer from its entry to the select
StartManageServer ==
    /\ cmd = "manage" /\ pc = "run"
    /\ \E env \in {"storeErr", "csrfErr", "listenErr", "ok"} :
         IF env = "ok"
         THEN /\ listener' = "open"
              /\ ctxState' = "live"
              /\ pc' = "mselect"
              /\ UNCHANGED result
         ELSE /\ result' = [token |-> "", err |-> env]
              /\ pc' = "returned"
              /\ UNCHANGED <<listener, ctxState>>
    /\ UNCHANGED <<args, scopeVars, lastList, authorized, displayLeft, manualVars, adminVars, cliVars, storeVars, srvClosed, conn, serveFailed, addVars, exchangeCalls, hist,
                   msVars>>

\* the deadline of opts.Timeout passes
msDeadline ==
    /\ cmd = "manage" /\ ctxState = "live"
    /\ ctxState' = "deadline"
    /\ UNCHANGED <<args, scopeVars, lastList, authorized, displayLeft, manualVars, adminVars, cliVars, pc, storeVars, srvVars, addVars, result, exchangeCalls, hist,
                   msVars>>

\* the caller's context is cancelled
msCancel ==
    /\ cmd = "manage" /\ ctxState = "live"
    /\ ctxState' = "cancelled"
    /\ UNCHANGED <<args, scopeVars, lastList, authorized, displayLeft, manualVars, adminVars, cliVars, pc, storeVars, srvVars, addVars, result, exchangeCalls, hist,
                   msVars>>

\* go func() { <-ctx.Done(); _ = ms.server.Close() }()
msCloser ==
    /\ cmd = "manage" /\ listener # "none"
    /\ CtxDone(ctxState)
    /\ ~srvClosed
    /\ srvClose
    /\ UNCHANGED <<args, scopeVars, lastList, authorized, displayLeft, manualVars, adminVars, cliVars, pc, storeVars, ctxState, addVars, result, exchangeCalls,
                   hist, msVars>>

\* ms.server.Serve(ln) returns an error other than ErrServerClosed; Serve closes ln
msServeFail ==
    /\ cmd = "manage" /\ pc = "mselect"
    /\ listener = "open" /\ ~srvClosed
    /\ listener' = "closed"
    /\ serveFailed' = TRUE
    /\ resultCh' = TrySend(resultCh, "serve error")
    /\ UNCHANGED <<args, scopeVars, lastList, authorized, displayLeft, manualVars, adminVars, cliVars, pc, storeVars, ctxState, srvClosed, conn, addVars, result,
                   exchangeCalls, hist, oauthState, issued, passed>>

\* select, case err := <-ms.resultCh: return err, then the deferred cancel()
msSelectResult ==
    /\ cmd = "manage" /\ pc = "mselect"
    /\ resultCh # <<>>
    /\ resultCh' = Tail(resultCh)
    /\ result' = [token |-> "", err |-> Head(resultCh)]
    /\ ctxState' = IF ctxState = "live" THEN "released" ELSE ctxState
    /\ pc' = "returned"
    /\ UNCHANGED <<args, scopeVars, lastList, authorized, displayLeft, manualVars, adminVars, cliVars, storeVars, srvVars, addVars, exchangeCalls, hist, oauthState,
                   issued, passed>>

\* select, case <-ctx.Done(): ms.server.Close(), return nil
msSelectDone ==
    /\ cmd = "manage" /\ pc = "mselect"
    /\ CtxDone(ctxState)
    /\ srvClose
    /\ result' = NoResult
    /\ pc' = "returned"
    /\ UNCHANGED <<args, scopeVars, lastList, authorized, displayLeft, manualVars, adminVars, cliVars, storeVars, ctxState, addVars, exchangeCalls, hist, msVars>>

\* ManageServer.handleAuthStart: ms.oauthState is set once randomStateFn
\* succeeded, before the scopes are computed
handleAuthStart ==
    /\ cmd = "manage" /\ listener # "none"
    /\ CanServe
    /\ Len(issued) < MaxStarts
    /\ \E env \in {"credsErr", "stateErr", "scopesErr", "ok"} :
         IF env \in {"credsErr", "stateErr"}
         THEN UNCHANGED <<oauthState, issued>>
         ELSE /\ oauthState' = StateTok(Len(issued) + 1)
              /\ issued' = Append(issued, StateTok(Len(issued) + 1))
    /\ conn' = TRUE
    /\ UNCHANGED <<args, scopeVars, lastList, authorized, displayLeft, manualVars, adminVars, cliVars, pc, storeVars, ctxState, listener, srvClosed, serveFailed, addVars,
                   result, exchangeCalls, hist, resultCh, passed>>

\* msCallbackCheck with the error parameter honoured only without a code
msCallbackCheckCodeFirst(cb, ost) ==
    IF cb.error # "" /\ cb.code = "" THEN "cancelled"
    ELSE IF cb.state # ost THEN "state mismatch"
    ELSE IF cb.code = "" THEN "missing code"
    ELSE "ok"

\* handleOAuthCallback up to readClientCredentials: the answer it gives
\* from the query alone, or "ok"
msCallbackCheck(cb, ost) ==
    IF cb.error # "" THEN "cancelled"
    ELSE IF cb.state # ost THEN "state mismatch"
    ELSE IF cb.code = "" THEN "missing code"
    ELSE "ok"

\* the e-mail handleOAuthCallback stores the token under
msCallbackEmail(email) == IF email = <<>> THEN PlaceholderEmail ELSE email

\* msCallbackSignal of a handler that reports a completed flow
msCallbackSignalDone(ch, resp) == IF resp = "success" THEN TrySend(ch, "") ELSE ch

\* ms.resultCh after handleOAuthCallback answered resp: the handler never sends
msCallbackSignal(ch, resp) == ch

\* msExchangeResp of a handler that goes on whatever cfg.Exchange returned
msExchangeRespAnyAnswer(out) == "ok"

\* handleOAuthCallback after cfg.Exchange: the error page it answers with, or
\* "ok" when the exchange succeeded and gave a refresh token
msExchangeResp(out) ==
    IF out = "error" THEN "exchange failed"
    ELSE IF out = "norefresh" THEN "no refresh token"
    ELSE "ok"

\* the set of the elements of a sequence
Range(f) == {f[i] : i \in DOMAIN f}

\* the e-mail parameters a callback may carry
EmailParams == {<<>>, <<"A">>}

\* ManageServer.handleOAuthCallback.  A request cannot carry a state value that
\* randomStateFn has yet to return.  The credentials, the provider's answer and
\* the email parameter are drawn where the handler reads them.
handleOAuthCallback(cb) ==
    /\ cmd = "manage" /\ listener # "none"
    /\ CanServe
    /\ nHandled < MaxCallbacks
    /\ cb.state \in {<<>>, Forged} \cup Range(issued)
    /\ LET pre  == msCallbackCheck(cb, oauthState)
           rec(resp, exchanged) ==
               <<[cb |-> cb, resp |-> resp, exchanged |-> exchanged,
                  issuedBefore |-> cb.state \in Range(issued),
                  passedBefore |-> cb.state \in passed]>>
       IN
         /\ passed' = IF pre = "ok" THEN passed \cup {cb.state} ELSE passed
         /\ IF pre # "ok"
            THEN /\ last' = rec(pre, FALSE)
                 /\ nSuccess' = nSuccess
                 /\ resultCh' = msCallbackSignal(resultCh, pre)
                 /\ UNCHANGED <<storeVars, exchangeCalls, lastExchange>>
            ELSE \E creds \in {"ok", "credsErr"} :
                   IF creds # "ok"
                   THEN /\ last' = rec("creds error", FALSE)
                        /\ nSuccess' = nSuccess
                        /\ resultCh' = msCallbackSignal(resultCh, "creds error")
                        /\ UNCHANGED <<storeVars, exchangeCalls, lastExchange>>
                   ELSE \E out \in ExchangeOutcomes :
                          /\ exchangeCalls' = exchangeCalls + 1
                          /\ lastExchange' = out
                          /\ IF msExchangeResp(out) # "ok"
                             THEN LET resp == msExchangeResp(out) IN
                                    /\ last' = rec(resp, TRUE)
                                    /\ nSuccess' = nSuccess
                                    /\ resultCh' = msCallbackSignal(resultCh, resp)
                                    /\ UNCHANGED storeVars
                             ELSE \E param \in EmailParams :
                                    LET email == msCallbackEmail(param)
                                        r == SetToken(store, email,
                                               Token(email, UserServices, UserScopes, RefreshFor(cb.code)))
                                        resp == IF r.err # "" THEN "store error"
                                                ELSE "success"
                                    IN
                                      /\ store' = r.store
                                      /\ setCalls' = setCalls + 1
                                      /\ last' = rec(resp, TRUE)
                                      /\ nSuccess' = IF resp = "success"
                                                     THEN nSuccess + 1 ELSE nSuccess
                                      /\ resultCh' = msCallbackSignal(resultCh, resp)
    /\ authorized' = IF last'[1].resp = "success" /\ last'[1].issuedBefore
                      THEN authorized \cup {cb.code} ELSE authorized
    /\ nHandled' = nHandled + 1
    /\ conn' = TRUE
    /\ UNCHANGED <<args, scopeVars, lastList, displayLeft, pasted, adminVars, cliVars, pc, ctxState, listener, srvClosed, serveFailed, addVars, result,
                   firstAccepted, oauthState, issued>>

---------------------------------------------------------------------------
(* ManageServer: /set-default and /remove-account *)

\* ms.csrfToken: the value generateCSRFToken returned when the server started
csrfToken == "csrf-1"

\* a request to one of the two endpoints: its method, its X-CSRF-Token header
\* ("" when absent), whether its body decodes, and the email of the body
AdminRequests ==
    [method : {"GET", "POST"},
     csrf   : {"", csrfToken, "csrf-forged"},
     bodyOk : BOOLEAN,
     email  : {<<>>, <<"A">>, <<"b">>}]

\* adminCheck without the test of the X-CSRF-Token header
adminCheckNoCsrf(req) ==
    IF req.method # "POST" THEN 405
    ELSE IF ~req.bodyOk THEN 400
    ELSE 0

\* the status a handler answers before it calls the store, 0 when it goes on
adminCheck(req) ==
    IF req.method # "POST" THEN 405
    ELSE IF req.csrf # csrfToken THEN 403
    ELSE IF ~req.bodyOk THEN 400
    ELSE 0

\* what lastAdmin keeps of a request: the answer, whether the store was
\* called, and the store and the default account as they were
adminRecord(path, req, status, called) ==
    <<[path |-> path, req |-> req, status |-> status, called |-> called,
       storeBefore |-> store, defaultBefore |-> defaultAccount]>>

\* ManageServer.handleSetDefault; ms.store.SetDefaultAccount succeeds or fails
handleSetDefault(req) ==
    /\ cmd = "manage" /\ listener # "none"
    /\ CanServe
    /\ LET pre == adminCheck(req) IN
         IF pre # 0
         THEN /\ lastAdmin' = adminRecord("/set-default", req, pre, FALSE)
              /\ UNCHANGED defaultAccount
         ELSE \E ok \in BOOLEAN :
                /\ defaultAccount' = IF ok THEN req.email ELSE defaultAccount
                /\ lastAdmin' = adminRecord("/set-default", req,
                                            IF ok THEN 200 ELSE 500, TRUE)
    /\ conn' = TRUE
    /\ lastList' = <<>>
    /\ UNCHANGED <<args, scopeVars, authorized, displayLeft, cliVars, manualVars, pc, storeVars, ctxState, listener, srvClosed,
                   serveFailed, addVars, result, exchangeCalls, hist, msVars>>

\* ManageServer.handleRemoveAccount
handleRemoveAccount(req) ==
    /\ cmd = "manage" /\ listener # "none"
    /\ CanServe
    /\ LET pre == adminCheck(req) IN
         IF pre # 0
         THEN /\ lastAdmin' = adminRecord("/remove-account", req, pre, FALSE)
              /\ UNCHANGED store
         ELSE LET r == DeleteToken(store, req.email) IN
                /\ store' = r.store
                /\ lastAdmin' = adminRecord("/remove-account", req,
                                            IF r.err = "" THEN 200 ELSE 500, TRUE)
    /\ conn' = TRUE
    /\ lastList' = <<>>
    /\ UNCHANGED <<args, scopeVars, authorized, displayLeft, cliVars, manualVars, pc, setCalls, defaultAccount, ctxState, listener,
                   srvClosed, serveFailed, addVars, result, exchangeCalls, hist, msVars>>

\* ListTokens: the records of the store in any order (the order of the keys
\* is not fixed)
ListTokens(st) ==
    {t \in [1..Cardinality(DOMAIN st) -> {st[k] : k \in DOMAIN st}] :
        \A i, j \in DOMAIN t : i # j => t[i] # t[j]}

\* what GetDefaultAccount may return, its error dropped: the e-mail
\* SetDefaultAccount was given, as given or as the store normalizes e-mails,
\* or the empty string
GetDefaultAccount == {defaultAccount, normalizeEmail(defaultAccount), <<>>}

\* accountIsDefault that marks the first account as well
accountIsDefaultFirstToo(t, i, defaultEmail) == t.Email = defaultEmail \/ i = 1

\* isDefault of the i-th token listed (i counts from 1)
accountIsDefault(t, i, defaultEmail) ==
    IF defaultEmail # <<>> THEN t.Email = defaultEmail ELSE i = 1

\* ManageServer.handleListAccounts
handleListAccounts(method) ==
    /\ cmd = "manage" /\ listener # "none"
    /\ CanServe
    /\ IF method # "GET"
       THEN lastList' = <<[status |-> 405, accounts |-> <<>>, defaultEmail |-> <<>>]>>
       ELSE \E list \in {"ok", "listErr"} :
              IF list # "ok"
              THEN lastList' = <<[status |-> 500, accounts |-> <<>>,
                                  defaultEmail |-> <<>>]>>
              ELSE \E tokens \in ListTokens(store), defaultEmail \in GetDefaultAccount :
                     lastList' =
                       <<[status |-> 200,
                          accounts |->
                            [i \in DOMAIN tokens |->
                               [email |-> tokens[i].Email,
                                services |-> tokens[i].Services,
                                isDefault |-> accountIsDefault(tokens[i], i, defaultEmail)]],
                          defaultEmail |-> defaultEmail]>>
    /\ conn' = TRUE
    /\ lastAdmin' = <<>>
    /\ UNCHANGED <<args, scopeVars, authorized, displayLeft, cliVars, manualVars,
                   defaultAccount, pc, storeVars, ctxState, listener, srvClosed,
                   serveFailed, addVars, result, exchangeCalls, hist, msVars>>

---------------------------------------------------------------------------
(* A session: store calls and `gog auth` token commands, one after another *)
(* on one store and one export file                                        *)

\* the e-mail arguments of a session
SessionEmails == {<<"A">>, <<"a", " ">>, <<"b">>, <<" ">>}

\* the records a session passes to SetToken
SessionTokens ==
    {[Email |-> <<>>, Services |-> <<"gmail">>, Scopes |-> <<"s1">>,
      CreatedAt |-> [sec |-> 1, nsec |-> 5], RefreshToken |-> "rt1"],
     [Email |-> <<"b">>, Services |-> <<>>, Scopes |-> <<"s2", "s3">>,
      CreatedAt |-> [sec |-> 0, nsec |-> 0], RefreshToken |-> "rt2"],
     [Email |-> <<"A">>, Services |-> <<>>, Scopes |-> <<>>,
      CreatedAt |-> [sec |-> 0, nsec |-> 0], RefreshToken |-> ""]}

\* what lastOp keeps of a call or command: its argument, the error and the
\* record it returned, what it printed, and the store as it was
opRecord(op, email, t, err, got, out) ==
    <<[op |-> op, email |-> email, tok |-> t, err |-> err, got |-> got,
       out |-> out, before |-> store]>>

\* what prevOp keeps of lastOp: the arguments of a SetToken that succeeded
opSummary(l) ==
    IF l # <<>> /\ l[1].op = "SetToken" /\ l[1].err = ""
    THEN <<[email |-> l[1].email, tok |-> l[1].tok]>>
    ELSE <<>>

\* store.SetToken(email, t)
StoreSetToken(email, t) ==
    /\ cmd = "session"
    /\ LET r == SetToken(store, email, t) IN
         /\ store' = r.store
         /\ lastOp' = opRecord("SetToken", email, t, r.err, NoToken, "")
    /\ prevOp' = opSummary(lastOp)
    /\ UNCHANGED <<args, scopeVars, lastList, authorized, displayLeft, manualVars, adminVars, file, pc, setCalls, ctxState, srvVars,
                   addVars, result, exchangeCalls, hist, msVars>>

\* store.GetToken(email)
StoreGetToken(email) ==
    /\ cmd = "session"
    /\ LET r == GetToken(store, email) IN
         lastOp' = opRecord("GetToken", email, NoToken, r.err, r.tok, "")
    /\ prevOp' = opSummary(lastOp)
    /\ UNCHANGED <<args, scopeVars, lastList, authorized, displayLeft, manualVars, adminVars, file, pc, storeVars, ctxState, srvVars,
                   addVars, result, exchangeCalls, hist, msVars>>

\* store.DeleteToken(email)
StoreDeleteToken(email) ==
    /\ cmd = "session"
    /\ LET r == DeleteToken(store, email) IN
         /\ store' = r.store
         /\ lastOp' = opRecord("DeleteToken", email, NoToken, r.err, NoToken, "")
    /\ prevOp' = opSummary(lastOp)
    /\ UNCHANGED <<args, scopeVars, lastList, authorized, displayLeft, manualVars, adminVars, file, pc, setCalls, ctxState, srvVars,
                   addVars, result, exchangeCalls, hist, msVars>>

\* Run of AuthRemoveCmd and of AuthTokensDeleteCmd: the store after it, the
\* error returned and what was printed.  env is "ok" when confirmDestructive
\* and openSecretsStore both succeeded.
deleteRun(st, email, env) ==
    LET e == TrimSpace(email)
        r == DeleteToken(st, e)
    IN
    IF e = <<>> THEN [store |-> st, err |-> "usage: empty email", out |-> ""]
    ELSE IF env # "ok" THEN [store |-> st, err |-> env, out |-> ""]
    ELSE IF r.err # "" THEN [store |-> st, err |-> r.err, out |-> ""]
    ELSE [store |-> r.store, err |-> "", out |-> "deleted"]

\* gog auth remove <email>
AuthRemove(email) ==
    /\ cmd = "session"
    /\ \E env \in {"ok", "envErr"} :
         LET r == deleteRun(store, email, env) IN
           /\ store' = r.store
           /\ lastOp' = opRecord("auth remove", email, NoToken, r.err, NoToken, r.out)
    /\ prevOp' = opSummary(lastOp)
    /\ UNCHANGED <<args, scopeVars, lastList, authorized, displayLeft, manualVars, adminVars, file, pc, setCalls, ctxState, srvVars,
                   addVars, result, exchangeCalls, hist, msVars>>

\* gog auth tokens delete <email>
AuthTokensDelete(email) ==
    /\ cmd = "session"
    /\ \E env \in {"ok", "envErr"} :
         LET r == deleteRun(store, email, env) IN
           /\ store' = r.store
           /\ lastOp' = opRecord("auth tokens delete", email, NoToken, r.err, NoToken,
                                 r.out)
    /\ prevOp' = opSummary(lastOp)
    /\ UNCHANGED <<args, scopeVars, lastList, authorized, displayLeft, manualVars, adminVars, file, pc, setCalls, ctxState, srvVars,
                   addVars, result, exchangeCalls, hist, msVars>>

\* t.UTC().Format(time.RFC3339): the seconds as text, the nanoseconds dropped
FormatRFC3339(t) == <<ToString(t.sec)>>

\* time.Parse(time.RFC3339, s)
ParseRFC3339(s) == [sec |-> CHOOSE n \in 0..9 : ToString(n) = s[1], nsec |-> 0]

\* exportJSON without the scopes
exportJSONNoScopes(t) ==
    [k \in {"email", "refresh_token"} |->
       IF k = "email" THEN t.Email ELSE t.RefreshToken]

\* the JSON object `auth tokens export` writes for the record t: a function
\* from the keys present to their values, the omitempty fields left out when
\* empty
exportJSON(t) ==
    LET created == IF t.CreatedAt = ZeroTime THEN <<>> ELSE FormatRFC3339(t.CreatedAt)
        keys == {"email", "refresh_token"}
                  \cup (IF t.Services # <<>> THEN {"services"} ELSE {})
                  \cup (IF t.Scopes # <<>> THEN {"scopes"} ELSE {})
                  \cup (IF created # <<>> THEN {"created_at"} ELSE {})
    IN [k \in keys |->
          CASE k = "email" -> t.Email
            [] k = "services" -> t.Services
            [] k = "scopes" -> t.Scopes
            [] k = "created_at" -> created
            [] k = "refresh_token" -> t.RefreshToken]

\* json.Unmarshal into the export struct of `auth tokens import`: an absent
\* key leaves the zero value
importStruct(j) ==
    [Email        |-> IF "email" \in DOMAIN j THEN j["email"] ELSE <<>>,
     Services     |-> IF "services" \in DOMAIN j THEN j["services"] ELSE <<>>,
     Scopes       |-> IF "scopes" \in DOMAIN j THEN j["scopes"] ELSE <<>>,
     CreatedAt    |-> IF "created_at" \in DOMAIN j THEN j["created_at"] ELSE <<>>,
     RefreshToken |-> IF "refresh_token" \in DOMAIN j THEN j["refresh_token"] ELSE ""]

\* gog auth tokens export <email> --out f [--overwrite]; file keeps, beside the
\* JSON written, the record it was written from
AuthTokensExport(email, overwrite) ==
    /\ cmd = "session"
    /\ prevOp' = opSummary(lastOp)
    /\ LET e == TrimSpace(email)
           g == GetToken(store, e)
           rec(err, got, out) == opRecord("auth tokens export", email, NoToken, err, got, out)
       IN
         IF e = <<>>
         THEN lastOp' = rec("usage: empty email", NoToken, "") /\ UNCHANGED file
         ELSE \E env \in {"ok", "envErr"} :
                IF env # "ok"
                THEN lastOp' = rec(env, NoToken, "") /\ UNCHANGED file
                ELSE IF g.err # ""
                THEN lastOp' = rec(g.err, NoToken, "") /\ UNCHANGED file
                ELSE IF ~overwrite /\ file # <<>>
                THEN lastOp' = rec("file exists", g.tok, "") /\ UNCHANGED file
                ELSE /\ file' = <<[json |-> exportJSON(g.tok), from |-> g.tok]>>
                     /\ lastOp' = rec("", g.tok, "exported")
    /\ UNCHANGED <<args, scopeVars, lastList, authorized, displayLeft, manualVars, adminVars, pc, storeVars, ctxState, srvVars,
                   addVars, result, exchangeCalls, hist, msVars>>

\* AuthTokensImportCmd.Run on a file that holds the JSON object j: the store
\* after it, the e-mail read, the error returned and what was printed.  env is
\* "ok" when ensureKeychainAccess and openSecretsStore both succeeded.
importRun(st, j, env) ==
    LET ex == importStruct(j)
        email == TrimSpace(ex.Email)
        createdAt == IF TrimSpace(ex.CreatedAt) # <<>>
                     THEN ParseRFC3339(TrimSpace(ex.CreatedAt))
                     ELSE ZeroTime
        r == SetToken(st, email,
                      [Email |-> email, Services |-> ex.Services,
                       Scopes |-> ex.Scopes, CreatedAt |-> createdAt,
                       RefreshToken |-> ex.RefreshToken])
    IN
    IF email = <<>>
    THEN [store |-> st, email |-> email,
          err |-> "usage: missing email in token file", out |-> ""]
    ELSE IF ex.RefreshToken = ""
    THEN [store |-> st, email |-> email,
          err |-> "usage: missing refresh_token in token file", out |-> ""]
    ELSE IF env # "ok"
    THEN [store |-> st, email |-> email, err |-> env, out |-> ""]
    ELSE [store |-> r.store, email |-> email, err |-> r.err,
          out |-> IF r.err = "" THEN "imported" ELSE ""]

\* gog auth tokens import f, f the file `auth tokens export` wrote
AuthTokensImport ==
    /\ cmd = "session"
    /\ prevOp' = opSummary(lastOp)
    /\ IF file = <<>>
       THEN /\ lastOp' = opRecord("auth tokens import", <<>>, NoToken, "no such file",
                                  NoToken, "")
            /\ UNCHANGED store
       ELSE \E env \in {"ok", "envErr"} :
              LET r == importRun(store, file[1].json, env) IN
                /\ store' = r.store
                /\ lastOp' = opRecord("auth tokens import", r.email, NoToken, r.err,
                                      NoToken, r.out)
    /\ UNCHANGED <<args, scopeVars, lastList, authorized, displayLeft, manualVars, adminVars, file, pc, setCalls, ctxState, srvVars,
                   addVars, result, exchangeCalls, hist, msVars>>

\* token files written by hand: an e-mail in another spelling, an empty
\* refresh token, a blank e-mail
UserFiles ==
    {[k \in {"email", "refresh_token", "scopes"} |->
        CASE k = "email" -> <<"A", " ">>
          [] k = "refresh_token" -> "rt2"
          [] k = "scopes" -> <<"s1">>],
     [k \in {"email", "refresh_token"} |->
        IF k = "email" THEN <<"b">> ELSE ""],
     [k \in {"email", "refresh_token"} |->
        IF k = "email" THEN <<" ">> ELSE "rt1"]}

\* gog auth tokens import g, g a file written by hand
AuthTokensImportFile(j) ==
    /\ cmd = "session"
    /\ prevOp' = opSummary(lastOp)
    /\ \E env \in {"ok", "envErr"} :
         LET r == importRun(store, j, env) IN
           /\ store' = r.store
           /\ lastOp' = opRecord("auth tokens import file", r.email, NoToken, r.err,
                                 NoToken, r.out)
    /\ UNCHANGED <<args, scopeVars, lastList, authorized, displayLeft, manualVars, adminVars, file, pc, setCalls, ctxState, srvVars,
                   addVars, result, exchangeCalls, hist, msVars>>

\* what Authorize may return to a Run of a session
AuthorizeResults == {[token |-> "rt3", err |-> ""], [token |-> "", err |-> "authorize failed"]}

\* gog auth add <email>, Authorize taken by what it returns
AuthAdd(email) ==
    /\ cmd = "session"
    /\ prevOp' = opSummary(lastOp)
    /\ \E res \in AuthorizeResults, env \in {"ok", "envErr"} :
         LET t == Token(email, UserServices, UserScopes, res.token)
             r == SetToken(store, email, t)
         IN
           IF ~runStoresToken(res)
           THEN /\ lastOp' = opRecord("auth add", email, t, res.err, NoToken, "")
                /\ UNCHANGED store
           ELSE IF env # "ok"
           THEN /\ lastOp' = opRecord("auth add", email, t, env, NoToken, "")
                /\ UNCHANGED store
           ELSE /\ store' = r.store
                /\ lastOp' = opRecord("auth add", email, t, r.err, NoToken,
                                      IF r.err = "" THEN "stored" ELSE "")
    /\ UNCHANGED <<args, scopeVars, lastList, authorized, displayLeft, manualVars, adminVars, file, pc, setCalls, ctxState, srvVars,
                   addVars, result, exchangeCalls, hist, msVars>>

---------------------------------------------------------------------------
(* googleauth.ScopesForServices *)

\* Scope strings are sequences of numbers, one for each part of the name that
\* decides the order: a < b as Go compares strings
RECURSIVE LexLess(_, _)
LexLess(a, b) ==
    IF a = <<>> THEN b # <<>>
    ELSE IF b = <<>> THEN FALSE
    ELSE IF a[1] # b[1] THEN a[1] < b[1]
    ELSE LexLess(Tail(a), Tail(b))

ScopeContacts == <<3>>

ScopeContactsOtherReadonly == <<3, 1>>

ScopeDirectoryReadonly == <<4, 1>>

ScopeDocuments == <<4, 2>>

ScopeDrive == <<4, 3>>

\* the services of the scope matrix that are modelled
ServiceNames == {"contacts", "docs", "drive"}

\* the service arguments of a call: the services and an unknown name
ServiceArgs == ServiceNames \cup {"nope"}

\* Scopes(service): the scopes in the order of the scope matrix, or an error
Scopes(svc) ==
    CASE svc = "contacts" ->
           [scopes |-> <<ScopeContacts, ScopeContactsOtherReadonly,
                         ScopeDirectoryReadonly>>, err |-> ""]
      [] svc = "docs" -> [scopes |-> <<ScopeDrive, ScopeDocuments>>, err |-> ""]
      [] svc = "drive" -> [scopes |-> <<ScopeDrive>>, err |-> ""]
      [] OTHER -> [scopes |-> <<>>, err |-> "unknown service"]

\* xs appended to out, the strings that out already holds left out
RECURSIVE appendNew(_, _)
appendNew(out, xs) ==
    IF xs = <<>> THEN out
    ELSE appendNew(IF \E i \in DOMAIN out : out[i] = Head(xs)
                   THEN out ELSE Append(out, Head(xs)),
                   Tail(xs))

\* the scopes of the services, each once, in the order met; the first unknown
\* service ends it with an error
RECURSIVE gatherScopes(_, _)
gatherScopes(services, out) ==
    IF services = <<>> THEN [scopes |-> out, err |-> ""]
    ELSE LET r == Scopes(Head(services)) IN
           IF r.err # "" THEN [scopes |-> <<>>, err |-> r.err]
           ELSE gatherScopes(Tail(services), appendNew(out, r.scopes))

\* x put in its place in the sorted sequence xs
RECURSIVE insertSorted(_, _)
insertSorted(x, xs) ==
    IF xs = <<>> THEN <<x>>
    ELSE IF LexLess(Head(xs), x) THEN <<Head(xs)>> \o insertSorted(x, Tail(xs))
    ELSE <<x>> \o xs

\* sort.Strings
RECURSIVE sortStrings(_)
sortStrings(xs) ==
    IF xs = <<>> THEN <<>> ELSE insertSorted(Head(xs), sortStrings(Tail(xs)))

\* ScopesForServices without the sort
ScopesForServicesUnsorted(services) == gatherScopes(services, <<>>)

\* ScopesForServices: the union of the scopes of the services, sorted
ScopesForServices(services) ==
    LET g == gatherScopes(services, <<>>) IN
      IF g.err # "" THEN g ELSE [scopes |-> sortStrings(g.scopes), err |-> ""]

\* the lists of services a call may be given
ServiceLists == UNION {[1..n -> ServiceArgs] : n \in 0..MaxServices}

\* what scopePrev keeps of scopeCall: the set of the services and the result
\* of a call that succeeded
scopeSummary(l) ==
    IF l # <<>> /\ l[1].err = ""
    THEN <<[set |-> {l[1].services[i] : i \in DOMAIN l[1].services},
            scopes |-> l[1].scopes]>>
    ELSE <<>>

\* a caller computes the scopes of a list of services
ScopesCall(services) ==
    /\ cmd = "scopes"
    /\ LET r == ScopesForServices(services) IN
         scopeCall' = <<[services |-> services, scopes |-> r.scopes, err |-> r.err]>>
    /\ scopePrev' = scopeSummary(scopeCall)
    /\ UNCHANGED <<args, lastList, authorized, displayLeft, manualVars, adminVars, cliVars, pc,
                   storeVars, ctxState, srvVars, addVars, result, exchangeCalls, hist,
                   msVars>>

---------------------------------------------------------------------------
(* The program *)

StoredBefore == [k \in {<<"a">>} |-> Token(<<"a">>, <<"gmail">>, <<"s1">>, "rt0")]

Init ==
    /\ cmd \in AddCmds \cup {"manage"}
    /\ pc = "run"
    /\ cEmail \in (IF cmd \in AddCmds THEN {<<"A">>, <<"b">>} ELSE {<<>>})
    /\ store0 \in {EmptyStore, StoredBefore}
    /\ store = store0
    /\ setCalls = 0
    /\ ctxState = "none"
    /\ listener = "none"
    /\ srvClosed = FALSE
    /\ conn = FALSE
    /\ serveFailed = FALSE
    /\ state = <<>>
    /\ codeCh = <<>>
    /\ errCh = <<>>
    /\ tok = ""
    /\ result = NoResult
    /\ runErr = ""
    /\ exchangeCalls = 0
    /\ last = <<>>
    /\ nHandled = 0
    /\ nSuccess = 0
    /\ firstAccepted = <<>>
    /\ oauthState = <<>>
    /\ issued = <<>>
    /\ resultCh = <<>>
    /\ passed = {}
    /\ pasted = <<>>
    /\ lastExchange = ""
    /\ defaultAccount = <<>>
    /\ lastAdmin = <<>>
    /\ file = <<>>
    /\ lastOp = <<>>
    /\ prevOp = <<>>
    /\ displayLeft = 0
    /\ authorized = {}
    /\ lastList = <<>>
    /\ scopeCall = <<>>
    /\ scopePrev = <<>>

Next ==
    \/ RunStart
    \/ AuthorizeStart
    \/ \E cb \in AddCallbacks : Callback(cb)
    \/ ServeFail
    \/ Deadline
    \/ Cancel
    \/ Closer
    \/ SelectCode
    \/ SelectErr
    \/ SelectDone
    \/ Exchange
    \/ DisplayElapse
    \/ Display
    \/ RunFinish
    \/ AuthorizeManualStart
    \/ \E rd \in StdinReads : ManualRead(rd)
    \/ ManualExchange
    \/ StartManageServer
    \/ msDeadline
    \/ msCancel
    \/ msCloser
    \/ msServeFail
    \/ msSelectResult
    \/ msSelectDone
    \/ handleAuthStart
    \/ \E cb \in ManageCallbacks : handleOAuthCallback(cb)

Spec == Init /\ [][Next]_vars

\* the stores a manage server may find or have written
AdminStores ==
    {EmptyStore, StoredBefore,
     [k \in {<<"a">>, <<"b">>} |->
        Token(k, UserServices, UserScopes, IF k = <<"a">> THEN "rt1" ELSE "rt2")]}

\* The manage server once StartManageServer waits in its select, with any
\* store and default account; its OAuth routes are left to Spec.
AdminInit ==
    /\ cmd = "manage"
    /\ pc = "mselect"
    /\ cEmail = <<>>
    /\ store0 \in AdminStores
    /\ store = store0
    /\ setCalls = 0
    /\ ctxState = "live"
    /\ listener = "open"
    /\ srvClosed = FALSE
    /\ conn = FALSE
    /\ serveFailed = FALSE
    /\ state = <<>>
    /\ codeCh = <<>>
    /\ errCh = <<>>
    /\ tok = ""
    /\ result = NoResult
    /\ runErr = ""
    /\ exchangeCalls = 0
    /\ last = <<>>
    /\ nHandled = 0
    /\ nSuccess = 0
    /\ firstAccepted = <<>>
    /\ oauthState = <<>>
    /\ issued = <<>>
    /\ resultCh = <<>>
    /\ passed = {}
    /\ pasted = <<>>
    /\ lastExchange = ""
    /\ defaultAccount \in {<<>>, <<"a">>}
    /\ lastAdmin = <<>>
    /\ file = <<>>
    /\ lastOp = <<>>
    /\ prevOp = <<>>
    /\ displayLeft = 0
    /\ authorized = {}
    /\ lastList = <<>>
    /\ scopeCall = <<>>
    /\ scopePrev = <<>>

AdminNext ==
    \/ \E req \in AdminRequests : handleSetDefault(req)
    \/ \E req \in AdminRequests : handleRemoveAccount(req)
    \/ \E method \in {"GET", "POST"} : handleListAccounts(method)
    \/ msDeadline
    \/ msCancel
    \/ msCloser
    \/ msSelectDone

AdminSpec == AdminInit /\ [][AdminNext]_vars

\* A session starts with an empty store and no export file.
StoreInit ==
    /\ cmd = "session"
    /\ pc = "run"
    /\ cEmail = <<>>
    /\ store0 = EmptyStore
    /\ store = store0
    /\ setCalls = 0
    /\ ctxState = "none"
    /\ listener = "none"
    /\ srvClosed = FALSE
    /\ conn = FALSE
    /\ serveFailed = FALSE
    /\ state = <<>>
    /\ codeCh = <<>>
    /\ errCh = <<>>
    /\ tok = ""
    /\ result = NoResult
    /\ runErr = ""
    /\ exchangeCalls = 0
    /\ last = <<>>
    /\ nHandled = 0
    /\ nSuccess = 0
    /\ firstAccepted = <<>>
    /\ oauthState = <<>>
    /\ issued = <<>>
    /\ resultCh = <<>>
    /\ passed = {}
    /\ pasted = <<>>
    /\ lastExchange = ""
    /\ defaultAccount = <<>>
    /\ lastAdmin = <<>>
    /\ file = <<>>
    /\ lastOp = <<>>
    /\ prevOp = <<>>
    /\ displayLeft = 0
    /\ authorized = {}
    /\ lastList = <<>>
    /\ scopeCall = <<>>
    /\ scopePrev = <<>>

StoreNext ==
    \/ \E email \in SessionEmails, t \in SessionTokens : StoreSetToken(email, t)
    \/ \E email \in SessionEmails : StoreGetToken(email)
    \/ \E email \in SessionEmails : StoreDeleteToken(email)
    \/ \E email \in SessionEmails : AuthRemove(email)
    \/ \E email \in SessionEmails : AuthTokensDelete(email)
    \/ \E email \in SessionEmails, overwrite \in BOOLEAN : AuthTokensExport(email, overwrite)
    \/ AuthTokensImport
    \/ \E j \in UserFiles : AuthTokensImportFile(j)
    \/ \E email \in SessionEmails : AuthAdd(email)

StoreSpec == StoreInit /\ [][StoreNext]_vars

\* Calls of ScopesForServices, one after another.
ScopeInit ==
    /\ cmd = "scopes"
    /\ pc = "run"
    /\ cEmail = <<>>
    /\ store0 = EmptyStore
    /\ store = store0
    /\ setCalls = 0
    /\ ctxState = "none"
    /\ listener = "none"
    /\ srvClosed = FALSE
    /\ conn = FALSE
    /\ serveFailed = FALSE
    /\ state = <<>>
    /\ codeCh = <<>>
    /\ errCh = <<>>
    /\ tok = ""
    /\ result = NoResult
    /\ runErr = ""
    /\ exchangeCalls = 0
    /\ last = <<>>
    /\ nHandled = 0
    /\ nSuccess = 0
    /\ firstAccepted = <<>>
    /\ oauthState = <<>>
    /\ issued = <<>>
    /\ resultCh = <<>>
    /\ passed = {}
    /\ pasted = <<>>
    /\ lastExchange = ""
    /\ defaultAccount = <<>>
    /\ lastAdmin = <<>>
    /\ file = <<>>
    /\ lastOp = <<>>
    /\ prevOp = <<>>
    /\ displayLeft = 0
    /\ authorized = {}
    /\ lastList = <<>>
    /\ scopeCall = <<>>
    /\ scopePrev = <<>>

ScopeNext == \E services \in ServiceLists : ScopesCall(services)

ScopeSpec == ScopeInit /\ [][ScopeNext]_vars

---------------------------------------------------------------------------
(* Claims *)

Returned == pc \in {"returned", "exit"}

\* the errors a callback can put in errCh
CallbackErrs == {"authorization error: access_denied", "state mismatch", "missing code"}

\* C1: in the interactive flow the token endpoint is contacted at most once
\* however many valid callbacks are delivered; when only valid callbacks were
\* delivered and Authorize returned on neither the context nor a listener
\* failure it was contacted exactly once, and a token Authorize returns is the
\* one exchanged for the first code delivered.
C1_ExchangedOnce ==
    cmd = "add" =>
      /\ exchangeCalls <= 1
      /\ (result.token # "" => exchangeCalls = 1)
      /\ (/\ Returned /\ nHandled >= 1 /\ nSuccess = nHandled
          /\ result.err \notin {"serve error", "context deadline exceeded",
                                "context canceled"}
          => /\ exchangeCalls = 1
             /\ result.token \in {"", RefreshFor(Head(firstAccepted))})

\* C1 witness: the same valid pair was delivered twice, the second delivery was
\* dropped by the full channel, and Authorize returned the token of one exchange.
C1_Witness ==
    /\ cmd = "add" /\ pc = "returned"
    /\ nHandled = 2 /\ nSuccess = 2
    /\ firstAccepted = <<"c1">>
    /\ last[1].cb.code = "c1" /\ ~last[1].toCode
    /\ result = [token |-> "rt1", err |-> ""]
    /\ exchangeCalls = 1

\* C2 (as claimed): the outcome of Authorize is decided by the first callback
\* result accepted; a callback error is returned only if it was the first
\* value accepted, and after an accepted error no code is exchanged.
C2_FirstAcceptedDecides ==
    cmd = "add" /\ Returned /\ firstAccepted # <<>> =>
      IF Head(firstAccepted) \in CallbackErrs
      THEN exchangeCalls = 0 /\ result.err # ""
      ELSE result.err \notin CallbackErrs

\* C3 (as claimed): a callback whose state differs from the issued one is
\* always answered as a state mismatch.
C3_MismatchAlwaysCsrf ==
    cmd = "add" /\ last # <<>> /\ last[1].cb.state # state =>
      last[1].resp = "state mismatch" /\ ~last[1].toCode

\* C3 (amended): a callback whose state differs from the issued one never has
\* its code put in codeCh; it is answered as a state mismatch unless it carries
\* an error parameter, and then as a cancellation.  No exchange is made unless
\* a callback with the issued state delivered a code.
C3_MismatchNeverDelivers ==
    cmd = "add" =>
      /\ (last # <<>> /\ last[1].cb.state # state =>
            /\ ~last[1].toCode
            /\ last[1].resp = IF last[1].cb.error = "" THEN "state mismatch"
                              ELSE "cancelled")
      /\ (last # <<>> /\ last[1].toCode => last[1].cb.state = state)
      /\ (nSuccess = 0 => codeCh = <<>> /\ exchangeCalls = 0)

\* C3 witness: a callback with a forged state and a code was answered as a
\* state mismatch, and its error accepted by errCh.
C3_Witness ==
    /\ cmd = "add" /\ last # <<>>
    /\ last[1].cb = [error |-> "", state |-> Forged, code |-> "c1"]
    /\ last[1].resp = "state mismatch" /\ last[1].toErr
    /\ codeCh = <<>>

\* C4 (as claimed): the manage server exchanges a code and writes the store
\* only for a callback whose state was issued by /auth/start before.
C4_CallbackNeedsIssuedState ==
    cmd = "manage" =>
      /\ (last # <<>> /\ last[1].exchanged => last[1].issuedBefore)
      /\ (exchangeCalls > 0 \/ setCalls > 0 => issued # <<>>)

\* C5 (as claimed): once a callback carrying an issued state passed validation,
\* a later callback carrying the same state causes no exchange.
C5_StateConsumedOnce ==
    cmd = "manage" /\ last # <<>> /\ last[1].issuedBefore /\ last[1].passedBefore
      => ~last[1].exchanged

\* C6: a callback with an error parameter is answered as a cancellation
\* whatever else it carries; in the interactive flow its code is not put in
\* codeCh, and in the manage server it causes no exchange.
C6_ErrorIsCancellation ==
    /\ (last # <<>> /\ last[1].cb.error # "" =>
          /\ last[1].resp = "cancelled"
          /\ (cmd = "add" => ~last[1].toCode)
          /\ (cmd = "manage" => ~last[1].exchanged))
    /\ (nSuccess = 0 /\ cmd = "add" => exchangeCalls = 0)

\* C6 witness: the interactive flow handled a callback that carries an error
\* together with the issued state and a code.
C6_Witness ==
    /\ cmd = "add" /\ last # <<>>
    /\ last[1].cb = [error |-> "access_denied", state |-> state, code |-> "c1"]
    /\ last[1].resp = "cancelled"
    /\ nHandled = 1 /\ exchangeCalls = 0

\* C7: when the deadline passed with no callback handled (and the listener did
\* not fail), Authorize returns the deadline error, and Run returns that error
\* with no SetToken call and the store as it was.
C7_TimeoutLeavesStore ==
    cmd = "add" /\ Returned /\ ctxState = "deadline" /\ nHandled = 0 /\ ~serveFailed
      => /\ result = [token |-> "", err |-> "context deadline exceeded"]
         /\ setCalls = 0
         /\ store = store0
         /\ (pc = "exit" => runErr = "context deadline exceeded")

\* C7 witness: `auth add` ended after such a timeout, with a record in the store.
C7_Witness ==
    /\ cmd = "add" /\ pc = "exit" /\ ctxState = "deadline"
    /\ nHandled = 0 /\ ~serveFailed
    /\ store0 = StoredBefore

\* C8: once Authorize has returned the listener is not open: it was never
\* opened, or it and the server are closed.
C8_ListenerClosed ==
    cmd = "add" /\ Returned =>
      \/ listener = "none" /\ ~srvClosed
      \/ listener = "closed" /\ srvClosed /\ ~CanServe

\* C8 witness: Authorize returned on an external cancellation, the listener closed.
C8_Witness ==
    /\ cmd = "add" /\ pc = "returned"
    /\ result = [token |-> "", err |-> "context canceled"]
    /\ ctxState = "cancelled"
    /\ listener = "closed"

\* C9 (as claimed): the first flow completed through /oauth2/callback signals
\* the result channel, so that StartManageServer returns.
C9_CompletedFlowSignals ==
    cmd = "manage" /\ last # <<>> /\ last[1].resp = "success" /\ last[1].issuedBefore
      => resultCh # <<>> \/ pc = "returned"

\* C9 (amended): StartManageServer, once serving, returns only on the context
\* (deadline or cancellation, with nil) or on a value of the result channel,
\* and that channel is signalled by a listener failure alone: a completed flow
\* leaves it empty.  In either case the select can proceed.
C9_ReturnsOnTimeoutOrFailure ==
    cmd = "manage" =>
      /\ (pc = "returned" /\ listener # "none" =>
            \/ result.err = "serve error" /\ serveFailed
            \/ result.err = "" /\ ctxState \in {"deadline", "cancelled"})
      /\ (resultCh # <<>> => serveFailed /\ resultCh = <<"serve error">>)
      /\ (pc = "mselect" /\ (resultCh # <<>> \/ CtxDone(ctxState))
            => ENABLED (msSelectResult \/ msSelectDone))
      /\ (pc = "mselect" /\ resultCh = <<>> /\ ~CtxDone(ctxState)
            => ~ENABLED (msSelectResult \/ msSelectDone))

\* C9 witness: a flow started by /auth/start completed, the server went on
\* serving, and StartManageServer returned when the deadline passed.
C9_Witness ==
    /\ cmd = "manage" /\ pc = "returned"
    /\ last # <<>> /\ last[1].resp = "success" /\ last[1].issuedBefore
    /\ resultCh = <<>>
    /\ ctxState = "deadline" /\ result = NoResult
    /\ ~serveFailed

\* C10 (as claimed): once StartManageServer has returned the listener is
\* closed and no request is served.
C10_ClosedOnReturn ==
    cmd = "manage" /\ pc = "returned" /\ listener # "none" =>
      listener = "closed" /\ ~CanServe

\* Authorize was called and has returned
AuthorizeReturned ==
    cmd \in AddCmds /\ (pc = "returned" \/ (pc = "exit" /\ runErr # "keychain access"))

\* C11 (as claimed): every SetToken is preceded, in the same flow, by a
\* validated callback and an exchange that gave a refresh token: in the manage
\* server by a callback that carries an issued state and was exchanged, in
\* `auth add` by a callback answered with the success page and an exchange that
\* succeeded, in `auth add --manual` by a pasted URL that passed the manual
\* test and an exchange that succeeded.  A flow that fails writes nothing: it
\* adds no record and changes none.
C11_SetOnlyAfterValidatedExchange ==
    /\ (cmd = "manage" /\ last # <<>> /\ last[1].resp \in {"success", "store error"}
          => last[1].issuedBefore /\ last[1].exchanged)
    /\ (cmd = "manage" /\ setCalls > 0 => issued # <<>> /\ exchangeCalls > 0)
    /\ (cmd = "add" /\ setCalls > 0
          => nSuccess >= 1 /\ lastExchange = "ok" /\ result.err = ""
               /\ result.token # "")
    /\ (cmd = "add-manual" /\ setCalls > 0
          => /\ pasted # <<>> /\ pasted[1].line.code # ""
             /\ ~manualStateMismatch(pasted[1].line.state, state)
             /\ lastExchange = "ok" /\ result.err = "" /\ result.token # "")
    /\ (cmd \in AddCmds /\ (result.err # "" \/ runErr # "") => store = store0)
    /\ (cmd = "manage" /\ nSuccess = 0
          => \A k \in DOMAIN store : k \in DOMAIN store0 /\ store[k] = store0[k])

\* C12: when the provider answers the exchange without a refresh token,
\* Authorize (interactive and manual) returns the no-refresh-token error and no
\* token, that error is returned for no other answer, and Authorize never
\* returns nil together with an empty refresh token.
C12_NoRefreshTokenIsAnError ==
    /\ (AuthorizeReturned /\ result.err = "" => result.token # "")
    /\ (cmd \in AddCmds /\ lastExchange = "norefresh"
          => pc \in {"returned", "exit"} /\ result = [token |-> "", err |-> NoRefreshErr])
    /\ (cmd \in AddCmds /\ result.err = NoRefreshErr => lastExchange = "norefresh")
    /\ (cmd \in AddCmds /\ pc = "exit" /\ lastExchange = "norefresh"
          => runErr = NoRefreshErr /\ setCalls = 0)

\* C12 witness: a manual flow whose pasted URL was accepted got an answer
\* without a refresh token and returned the error.
C12_Witness ==
    /\ cmd = "add-manual" /\ pc = "returned"
    /\ pasted # <<>> /\ pasted[1].line.code = "c1"
    /\ lastExchange = "norefresh" /\ exchangeCalls = 1
    /\ result.err = NoRefreshErr

\* a step with which Authorize returns the deadline error
ReturnsTimeout ==
    /\ SelectDone \/ (\E rd \in StdinReads : ManualRead(rd))
    /\ result'.err = "context deadline exceeded"

\* C14 (as claimed): in both variants, once the deadline has passed while
\* Authorize waits (for a callback, or for the pasted URL) it can return the
\* deadline error without any further input, and a manual flow whose deadline
\* passed before the read returned ends with the deadline error.
C14_DeadlineReturnsTimeout ==
    /\ (cmd \in AddCmds /\ pc \in {"select", "paste"} /\ ctxState = "deadline"
          => ENABLED ReturnsTimeout)
    /\ (cmd = "add-manual" /\ pc \in {"returned", "exit"} /\ pasted # <<>>
          /\ pasted[1].ctx = "deadline"
          => result.err = "context deadline exceeded")

\* the errors of extractCodeAndState
ParseErrs == {"parse error", "no code found in URL"}

C16_EofAccepted ==
    cmd = "add-manual" /\ pasted # <<>> /\ pasted[1].readErr = "EOF"
      /\ pasted[1].line.wellFormed /\ pasted[1].line.code # ""
      => result.err # "EOF"

\* C13: a request to /set-default or /remove-account whose X-CSRF-Token header
\* is absent or is not the server's token is answered 403 (405 when it is not
\* a POST) without a call of SetDefaultAccount or DeleteToken, and the store
\* and the default account are as they were.
C13_BadCsrfRejected ==
    lastAdmin # <<>> /\ lastAdmin[1].req.csrf # csrfToken
      => /\ lastAdmin[1].status \in {403, 405}
         /\ (lastAdmin[1].req.method = "POST" => lastAdmin[1].status = 403)
         /\ ~lastAdmin[1].called
         /\ store = lastAdmin[1].storeBefore
         /\ defaultAccount = lastAdmin[1].defaultBefore

\* C13 witness: a POST to /remove-account for a stored account with a forged
\* token and a good body was answered 403, the account still stored.
C13_Witness ==
    /\ lastAdmin # <<>>
    /\ lastAdmin[1].path = "/remove-account"
    /\ lastAdmin[1].req = [method |-> "POST", csrf |-> "csrf-forged",
                           bodyOk |-> TRUE, email |-> <<"A">>]
    /\ lastAdmin[1].status = 403
    /\ <<"a">> \in DOMAIN store

\* an e-mail trimmed and lower-cased
Key(email) == ToLower(TrimSpace(email))

\* C17: a GetToken that follows at once a SetToken that succeeded, under an
\* e-mail equal to the one written under after trimming and lower-casing,
\* returns the record written, its e-mail in the normalized form.
C17_SetThenGet ==
    lastOp # <<>> /\ lastOp[1].op = "GetToken" /\ prevOp # <<>>
      /\ Key(lastOp[1].email) = Key(prevOp[1].email)
      => /\ lastOp[1].err = ""
         /\ lastOp[1].got = [prevOp[1].tok EXCEPT !.Email = Key(prevOp[1].email)]

\* C17 witness: the record was written under "A" and read under "a ".
C17_Witness ==
    /\ lastOp # <<>> /\ lastOp[1].op = "GetToken" /\ prevOp # <<>>
    /\ prevOp[1].email = <<"A">> /\ lastOp[1].email = <<"a", " ">>
    /\ lastOp[1].got.Email = <<"a">> /\ lastOp[1].got.RefreshToken = "rt1"

\* the two commands that delete a token
DeleteCmds == {"auth remove", "auth tokens delete"}

\* C18: DeleteToken on an absent key fails with the not-found error and leaves
\* the store as it was; on a present key it succeeds and a GetToken of that
\* key then fails with the not-found error; `auth remove` and `auth tokens
\* delete` of an absent key return an error and print deleted only after a
\* deletion.
C18_DeleteNotFound ==
    lastOp # <<>> =>
      LET r == lastOp[1]
          k == Key(r.email)
      IN
        /\ (r.op = "DeleteToken" /\ k # <<>> /\ k \notin DOMAIN r.before
              => r.err = "key not found" /\ store = r.before)
        /\ (r.op = "DeleteToken" /\ k \in DOMAIN r.before
              => /\ r.err = "" /\ k \notin DOMAIN store
                 /\ GetToken(store, r.email) = [tok |-> NoToken, err |-> "key not found"])
        /\ (r.op \in DeleteCmds /\ k # <<>> /\ k \notin DOMAIN r.before
              => /\ r.err \in {"key not found", "envErr"}
                 /\ r.out = "" /\ store = r.before)
        /\ (r.op \in DeleteCmds /\ r.out = "deleted"
              => r.err = "" /\ k \in DOMAIN r.before /\ k \notin DOMAIN store)

\* C18 witness: `auth remove` of an account that is not stored, beside one
\* that is, returned the not-found error.
C18_Witness ==
    /\ lastOp # <<>> /\ lastOp[1].op = "auth remove"
    /\ lastOp[1].email = <<"b">>
    /\ DOMAIN lastOp[1].before = {<<"a">>}
    /\ lastOp[1].err = "key not found" /\ lastOp[1].out = ""

\* C19: `auth tokens export` writes the file from the record stored under the
\* normalized e-mail, and an `auth tokens import` of that file that succeeds
\* leaves under the same e-mail a record with the refresh token, the scopes
\* and the services of the record exported.
C19_ExportImportRoundTrip ==
    lastOp # <<>> =>
      LET r == lastOp[1] IN
        /\ (r.op = "auth tokens export" /\ r.out = "exported"
              => /\ file # <<>> /\ Key(r.email) \in DOMAIN store
                 /\ file[1].from = store[Key(r.email)])
        /\ (r.op = "auth tokens import" /\ r.err = ""
              => /\ file # <<>> /\ r.out = "imported"
                 /\ LET o == file[1].from IN
                      /\ o.Email \in DOMAIN store
                      /\ store[o.Email].Email = o.Email
                      /\ store[o.Email].RefreshToken = o.RefreshToken
                      /\ store[o.Email].Scopes = o.Scopes
                      /\ store[o.Email].Services = o.Services)

\* C19 witness: the record exported had been deleted when the file was
\* imported, and is stored again.
C19_Witness ==
    /\ lastOp # <<>> /\ lastOp[1].op = "auth tokens import" /\ lastOp[1].err = ""
    /\ file # <<>> /\ file[1].from.Email = <<"a">>
    /\ file[1].from.Scopes = <<"s1">> /\ file[1].from.Services = <<"gmail">>
    /\ <<"a">> \notin DOMAIN lastOp[1].before
    /\ store[<<"a">>].RefreshToken = "rt1"

\* C20: a SetToken that succeeds, made directly or by `auth add`, leaves under
\* the normalized e-mail exactly the record passed (its e-mail normalized),
\* which GetToken returns, and leaves the records under all other keys as
\* they were.
C20_SetOverwrites ==
    lastOp # <<>> /\ lastOp[1].op \in {"SetToken", "auth add"} /\ lastOp[1].err = ""
      => LET r == lastOp[1]
             k == Key(r.email)
         IN
           /\ k \in DOMAIN store
           /\ store[k] = [r.tok EXCEPT !.Email = k]
           /\ GetToken(store, r.email) = [tok |-> [r.tok EXCEPT !.Email = k], err |-> ""]
           /\ DOMAIN store = DOMAIN r.before \cup {k}
           /\ \A j \in DOMAIN r.before \ {k} : store[j] = r.before[j]

\* C20 witness: `auth add` for an e-mail that held a record with other scopes
\* and another refresh token, beside a record under another key.
C20_Witness ==
    /\ lastOp # <<>> /\ lastOp[1].op = "auth add" /\ lastOp[1].err = ""
    /\ lastOp[1].email = <<"A">>
    /\ DOMAIN lastOp[1].before = {<<"a">>, <<"b">>}
    /\ lastOp[1].before[<<"a">>].RefreshToken = "rt1"
    /\ lastOp[1].before[<<"a">>].Scopes = <<"s1">>
    /\ store[<<"a">>].RefreshToken = "rt3"

\* C21: after any sequence of set, delete, import and add operations every key
\* of the store is a trimmed, lower-cased, non-empty e-mail (so no two records
\* belong to one normalized e-mail), every record carries the key it is stored
\* under as its e-mail and a refresh token that is not empty, and a set or an
\* import of a record without a refresh token fails and leaves the store as it
\* was.
C21_StoreInvariant ==
    /\ \A k \in DOMAIN store :
          /\ k # <<>> /\ Key(k) = k
          /\ store[k].Email = k
          /\ store[k].RefreshToken # ""
    /\ \A j, k \in DOMAIN store : Key(j) = Key(k) => j = k
    /\ (lastOp # <<>> /\ lastOp[1].op = "SetToken" /\ lastOp[1].tok.RefreshToken = ""
          => /\ lastOp[1].err \in {"missing email", "missing refresh token"}
             /\ store = lastOp[1].before)
    /\ (lastOp # <<>> /\ lastOp[1].op = "auth tokens import file" /\ lastOp[1].err = ""
          => Key(lastOp[1].email) \in DOMAIN store)

\* C21 witness: a file written by hand with the e-mail "A " was imported into
\* a store that held records under "a" and "b"; the store still holds two
\* records, the one under "a" replaced.
C21_Witness ==
    /\ lastOp # <<>> /\ lastOp[1].op = "auth tokens import file" /\ lastOp[1].err = ""
    /\ lastOp[1].email = <<"A">>
    /\ DOMAIN lastOp[1].before = {<<"a">>, <<"b">>}
    /\ lastOp[1].before[<<"a">>].RefreshToken = "rt1"
    /\ DOMAIN store = {<<"a">>, <<"b">>}
    /\ store[<<"a">>].RefreshToken = "rt2"

\* the scopes of a set of services, as a set
ScopeUnion(svcs) == UNION {{Scopes(v).scopes[i] : i \in DOMAIN Scopes(v).scopes} : v \in svcs}

\* C22: for every list of valid services the result of ScopesForServices is
\* in strictly ascending order (sorted, no scope twice), holds exactly the
\* scopes of the services, and equals the result of the call before it when
\* that was given the same services in any order and with any repetition.
C22_ScopesSortedUnion ==
    scopeCall # <<>> /\ scopeCall[1].err = "" =>
      LET out  == scopeCall[1].scopes
          svcs == {scopeCall[1].services[i] : i \in DOMAIN scopeCall[1].services}
      IN
        /\ \A i \in 1..(Len(out) - 1) : LexLess(out[i], out[i + 1])
        /\ {out[i] : i \in DOMAIN out} = ScopeUnion(svcs)
        /\ (scopePrev # <<>> /\ scopePrev[1].set = svcs => scopePrev[1].scopes = out)

\* C22 witness: docs, contacts, docs after a call with the same two services:
\* five scopes, the Drive scope once and after the Docs scope.
C22_Witness ==
    /\ scopeCall # <<>> /\ scopeCall[1].services = <<"docs", "contacts", "docs">>
    /\ scopePrev # <<>> /\ scopePrev[1].set = {"contacts", "docs"}
    /\ scopeCall[1].scopes = <<ScopeContacts, ScopeContactsOtherReadonly,
                                ScopeDirectoryReadonly, ScopeDocuments, ScopeDrive>>

\* C23 (as claimed): once the code of a valid callback was exchanged for a
\* refresh token, Authorize can return at once: it does not wait for the
\* postSuccessDisplaySeconds to pass.
C23_ReturnsAtOnce ==
    cmd = "add" /\ pc = "display" => ENABLED Display

C24_KeyedByAccount ==
    cmd = "manage" =>
      \A code \in authorized :
        /\ AccountEmail(code) \in DOMAIN store
        /\ store[AccountEmail(code)].RefreshToken = RefreshFor(code)

\* a step that takes another code or pasted URL, or contacts the token endpoint
AnotherAttempt ==
    \/ Exchange
    \/ ManualExchange
    \/ SelectCode
    \/ \E cb \in AddCallbacks : Callback(cb)
    \/ \E rd \in StdinReads : ManualRead(rd)

\* C26: one call of Authorize sends at most one request to the token
\* endpoint; once that request failed or came back without a refresh token
\* Authorize has returned that failure, and no callback is handled, no code is
\* taken and no exchange is made after it; `auth add` returns the failure and
\* leaves the store as it was.
C26_NothingRetried ==
    cmd \in AddCmds =>
      /\ exchangeCalls <= 1
      /\ (lastExchange \in {"error", "norefresh"}
            => /\ Returned
               /\ result = [token |-> "",
                             err |-> IF lastExchange = "error" THEN "exchange failed"
                                     ELSE NoRefreshErr]
               /\ exchangeCalls = 1
               /\ ~ENABLED AnotherAttempt
               /\ (pc = "exit" => runErr = result.err /\ store = store0))

\* C26 witness: the exchange of the first code failed while a second code was
\* waiting in codeCh; Authorize returned the failure and the second code was
\* never exchanged.
C26_Witness ==
    /\ cmd = "add" /\ pc = "exit"
    /\ lastExchange = "error" /\ exchangeCalls = 1
    /\ nSuccess = 2 /\ codeCh # <<>>
    /\ runErr = "exchange failed"

\* C27 (as claimed): a state issued by /auth/start stays valid until its own
\* callback arrives, whatever other attempts are started meanwhile: the first
\* callback that carries an issued state is not answered as a state mismatch,
\* and the pending state, once written, is the state issued first until a
\* callback has consumed it.
C27_StatePerAttempt ==
    cmd = "manage" =>
      /\ (last # <<>> /\ last[1].cb.error = "" /\ last[1].issuedBefore
            /\ ~last[1].passedBefore
            => last[1].resp # "state mismatch")
      /\ (issued # <<>> /\ passed = {} => oauthState = Head(issued))

C29_OneDefault ==
    lastList # <<>> /\ lastList[1].status = 200 =>
      LET acc    == lastList[1].accounts
          d      == lastList[1].defaultEmail
          marked == {i \in DOMAIN acc : acc[i].isDefault}
      IN
        /\ Cardinality(marked) <= 1
        /\ (d = <<>> /\ acc # <<>> => marked = {1})
        /\ (d # <<>> => marked = {i \in DOMAIN acc : acc[i].email = d})

\* C29 witness: two accounts listed, the default the second of them: it alone
\* is marked.
C29_Witness ==
    /\ lastList # <<>> /\ lastList[1].status = 200
    /\ Len(lastList[1].accounts) = 2
    /\ lastList[1].defaultEmail = <<"b">>
    /\ lastList[1].accounts[1].email = <<"a">> /\ ~lastList[1].accounts[1].isDefault
    /\ lastList[1].accounts[2].email = <<"b">> /\ lastList[1].accounts[2].isDefault

\* the AccountManagerServer half of C30: a callback is answered with the
\* success page only when the exchange it made succeeded and the store holds
\* a record with the refresh token the exchange gave
ManageSuccessAfterStore ==
    cmd = "manage" /\ last # <<>> /\ last[1].resp = "success" =>
      /\ last[1].exchanged /\ lastExchange = "ok"
      /\ \E k \in DOMAIN store :
            store[k].RefreshToken = RefreshFor(last[1].cb.code)
      /\ nSuccess <= setCalls /\ nSuccess <= exchangeCalls

\* the interactive handler answers before the exchange: no exchange is made
\* before a callback has got the success page, and an Authorize that returns
\* the error of a failed exchange has answered a callback with it
AnsweredBeforeExchange ==
    cmd = "add" =>
      /\ (exchangeCalls > 0 => nSuccess >= 1)
      /\ (pc = "returned" /\ result.err \in {"exchange failed", NoRefreshErr}
            => nSuccess >= 1 /\ exchangeCalls >= 1)

====
